---- MODULE Spec2Model ----
(***************************************************************************)
(* banana-counter: the /api/banana route handlers (a sorted-set variant    *)
(* and a hash variant, both over a remote Redis store) and the HomePage    *)
(* client view that calls them.                                            *)
(*                                                                         *)
(* Strings are sequences of one-character strings: <<"a", "b">> is "ab"    *)
(* and <<>> is "".                                                         *)
(***************************************************************************)
EXTENDS Integers, Sequences, FiniteSets, Bags, TLC

VARIABLES
    zset,       \* Redis sorted set "banana-leaderboard": member -> score
    hash,       \* Redis hash "banana-count": field -> integer value
    last,       \* sequential driver: the last call and both variants' responses
    posted,     \* history: user -> number of successful POST responses so far
    variant,    \* concurrent driver: the route file that is deployed
    reqs,       \* concurrent driver: the bag of handler invocations
    peak,       \* history: the largest number of invocations in flight at once
    nposts,     \* leaderboard driver: the number of POSTs it has issued
    userId,     \* HomePage: useState("") - the normalised identifier
    score,      \* HomePage: useState<number | null>(null) - the displayed score
    leaderboard,\* HomePage: useState<LeaderboardEntry[]>([])
    isLoading,  \* HomePage: useState(false)
    tasks,      \* HomePage: the bag of its async calls that have not returned
    rejected    \* history: the last step was an await of the view rejecting

routeVars == <<zset, hash, last, posted, variant, reqs, peak, nposts>>

viewVars == <<userId, score, leaderboard, isLoading, tasks, rejected>>

vars == <<zset, hash, last, posted, variant, reqs, peak, nposts,
          userId, score, leaderboard, isLoading, tasks, rejected>>

-----------------------------------------------------------------------------
(* Bounds of the model.                                                    *)

\* no user is incremented beyond this score
MaxScore == 3
\* number of handler invocations the concurrent driver starts
MaxReqs == 3

\* null / undefined: a missing query parameter, a missing body field
NULL == <<"<null>">>

\* number of POSTs the leaderboard driver issues on top of its initial store
MaxBoardPosts == 2
\* the initial stores of the leaderboard driver hold scores 1..k, k up to this
MaxSeedSpread == 3

\* number of async calls of the view that may be outstanding at once
MaxTasks == 2
\* the view driver stops incrementing a user at this score
MaxViewScore == 1

\* the userId values the drivers send: missing, "", "a", "b"
ApiUserIds == {NULL, <<>>, <<"a">>, <<"b">>}

-----------------------------------------------------------------------------
(* JavaScript values.                                                      *)

\* Redis' nil reply (zscore / hget of an absent member)
NullReply == -1

Min(a, b) == IF a < b THEN a ELSE b

\* JavaScript truthiness of a string-or-null: null, undefined and "" are falsy
Truthy(uid) == uid # NULL /\ uid # <<>>

\* Number(score) || 0 : Number(null) is 0, and 0 is falsy
NumberOrZero(reply) ==
    LET n == IF reply = NullReply THEN 0 ELSE reply
    IN  IF n = 0 THEN 0 ELSE n

\* the byte value of the characters the model uses
Code(c) ==
    CASE c = " " -> 32
      [] c = "A" -> 65
      [] c = "B" -> 66
      [] c = "a" -> 97
      [] c = "b" -> 98
      [] c = "c" -> 99

\* s sorts strictly before t byte by byte (Redis' order among equal scores)
LexLess(s, t) ==
    \E i \in 1..(Min(Len(s), Len(t)) + 1) :
        /\ \A j \in 1..(i - 1) : s[j] = t[j]
        /\ \/ i > Len(s) /\ i <= Len(t)
           \/ i <= Len(s) /\ i <= Len(t) /\ Code(s[i]) < Code(t[i])

-----------------------------------------------------------------------------
(* The Redis commands the handlers use.  A store is a function from the    *)
(* members (fields) that exist to their scores (values).                   *)

EmptyStore == [m \in {} |-> 0]

\* ZSCORE key member
zscore(z, member) == IF member \in DOMAIN z THEN z[member] ELSE NullReply

zincrbyStoreLost(z, incr, member) ==
    [m \in DOMAIN z \cup {member} |-> IF m = member THEN incr ELSE z[m]]

\* the store after ZINCRBY key incr member; an absent member counts as 0

zincrbyStore(z, incr, member) ==
    [m \in DOMAIN z \cup {member} |->
        IF m # member THEN z[m]
        ELSE IF member \in DOMAIN z THEN z[member] + incr ELSE incr]

zincrbyReplyOld(z, incr, member) ==
    IF member \in DOMAIN z THEN z[member] ELSE 0

\* the reply of ZINCRBY: the member's new score
zincrbyReply(z, incr, member) == zincrbyStore(z, incr, member)[member]

zrankAscending(z, member) ==
    Cardinality({m \in DOMAIN z :
        \/ z[m] < z[member]
        \/ z[m] = z[member] /\ LexLess(m, member)})

\* position of member in the descending order: by score, ties by string order
zrevrank(z, member) ==
    Cardinality({m \in DOMAIN z :
        \/ z[m] > z[member]
        \/ z[m] = z[member] /\ LexLess(member, m)})

\* ZRANGE key start stop REV WITHSCORES: the flat reply member, score, ...
zrangeRevWithScores(z, start, stop) ==
    LET n == Cardinality(DOMAIN z)
        lastIx == Min(stop, n - 1)
        count == IF lastIx < start THEN 0 ELSE lastIx - start + 1
        ranked == {<<zrevrank(z, m), m>> : m \in DOMAIN z}
        at(r) == (CHOOSE p \in ranked : p[1] = r)[2]
    IN  [i \in 1..(2 * count) |->
            IF i % 2 = 1 THEN at(start + (i - 1) \div 2)
                         ELSE z[at(start + (i - 2) \div 2)]]

\* HGET key field
hget(h, field) == IF field \in DOMAIN h THEN h[field] ELSE NullReply

hincrbyStoreSet(h, field, incr) ==
    [f \in DOMAIN h \cup {field} |-> IF f = field THEN incr ELSE h[f]]

\* the store after HINCRBY key field incr; an absent field counts as 0
hincrbyStore(h, field, incr) ==
    [f \in DOMAIN h \cup {field} |->
        IF f # field THEN h[f]
        ELSE IF field \in DOMAIN h THEN h[field] + incr ELSE incr]

\* the reply of HINCRBY: the field's new value
hincrbyReply(h, field, incr) == hincrbyStore(h, field, incr)[field]

-----------------------------------------------------------------------------
(* The responses NextResponse.json builds.                                 *)

JsonScore(n) ==
    [status |-> 200, body |-> "score", score |-> n,
     leaderboard |-> <<>>, error |-> ""]

JsonLeaderboard(entries) ==
    [status |-> 200, body |-> "leaderboard", score |-> NullReply,
     leaderboard |-> entries, error |-> ""]

JsonError(error, status) ==
    [status |-> status, body |-> "error", score |-> NullReply,
     leaderboard |-> <<>>, error |-> error]

NoCommand == [op |-> "none", member |-> NULL]

-----------------------------------------------------------------------------
(* The route handlers.  Each handler runs up to its single await of a      *)
(* Redis command (Command), the store executes the command atomically      *)
(* (RedisStore, RedisReply), and the handler builds its response from the  *)
(* reply (Response).                                                       *)

\* for (i = 0; i < topTen.length; i += 2) leaderboard.push({user, score})
LeaderboardOf(topTen) ==
    [k \in 1..((Len(topTen) + 1) \div 2) |->
        [user |-> topTen[2 * k - 1],
         score |-> IF 2 * k <= Len(topTen) THEN topTen[2 * k] ELSE NullReply]]

\* sorted-set variant, GET: the command it awaits
zsetGETCommand(uid) ==
    IF Truthy(uid) THEN [op |-> "zscore", member |-> uid]
                   ELSE [op |-> "zrange", member |-> NULL]

\* sorted-set variant, GET: the response built from the reply
zsetGETResponse(uid, reply) ==
    IF Truthy(uid) THEN JsonScore(NumberOrZero(reply))
                   ELSE JsonLeaderboard(LeaderboardOf(reply))

zsetPOSTCommandUnchecked(uid) == [op |-> "zincrby", member |-> uid]

\* sorted-set variant, POST
zsetPOSTCommand(uid) ==
    IF ~Truthy(uid) THEN NoCommand
                    ELSE [op |-> "zincrby", member |-> uid]

zsetPOSTResponse(uid, reply) ==
    IF ~Truthy(uid) THEN JsonError("User ID is required", 400)
                    ELSE JsonScore(reply)

\* hash variant, GET
hashGETCommand(uid) ==
    IF ~Truthy(uid) THEN NoCommand
                    ELSE [op |-> "hget", member |-> uid]

hashGETResponseUnchecked(uid, reply) == JsonScore(NumberOrZero(reply))

hashGETResponseRaw(uid, reply) ==
    IF ~Truthy(uid) THEN JsonError("User ID is required", 400)
                    ELSE JsonScore(reply)

hashGETResponse(uid, reply) ==
    IF ~Truthy(uid) THEN JsonError("User ID is required", 400)
                    ELSE JsonScore(NumberOrZero(reply))

\* hash variant, POST
hashPOSTCommand(uid) ==
    IF ~Truthy(uid) THEN NoCommand
                    ELSE [op |-> "hincrby", member |-> uid]

hashPOSTResponse(uid, reply) ==
    IF ~Truthy(uid) THEN JsonError("User ID is required", 400)
                    ELSE JsonScore(reply)

Command(v, method, uid) ==
    CASE v = "zset" /\ method = "GET"  -> zsetGETCommand(uid)
      [] v = "zset" /\ method = "POST" -> zsetPOSTCommand(uid)
      [] v = "hash" /\ method = "GET"  -> hashGETCommand(uid)
      [] v = "hash" /\ method = "POST" -> hashPOSTCommand(uid)

Response(v, method, uid, reply) ==
    CASE v = "zset" /\ method = "GET"  -> zsetGETResponse(uid, reply)
      [] v = "zset" /\ method = "POST" -> zsetPOSTResponse(uid, reply)
      [] v = "hash" /\ method = "GET"  -> hashGETResponse(uid, reply)
      [] v = "hash" /\ method = "POST" -> hashPOSTResponse(uid, reply)

RedisStoreTouching(store, cmd) ==
    CASE cmd.op = "zincrby" -> zincrbyStore(store, 1, cmd.member)
      [] cmd.op = "hincrby" -> hincrbyStore(store, cmd.member, 1)
      [] cmd.op \in {"zscore", "hget"} -> zincrbyStore(store, 0, cmd.member)
      [] OTHER -> store

\* the store after Redis has executed cmd
RedisStore(store, cmd) ==
    CASE cmd.op = "zincrby" -> zincrbyStore(store, 1, cmd.member)
      [] cmd.op = "hincrby" -> hincrbyStore(store, cmd.member, 1)
      [] OTHER -> store

RedisReplySkipsFirst(store, cmd) ==
    CASE cmd.op = "zscore"  -> zscore(store, cmd.member)
      [] cmd.op = "zrange"  -> zrangeRevWithScores(store, 1, 10)
      [] cmd.op = "zincrby" -> zincrbyReply(store, 1, cmd.member)
      [] cmd.op = "hget"    -> hget(store, cmd.member)
      [] cmd.op = "hincrby" -> hincrbyReply(store, cmd.member, 1)
      [] OTHER -> NullReply

\* Redis' reply to cmd
RedisReply(store, cmd) ==
    CASE cmd.op = "zscore"  -> zscore(store, cmd.member)
      [] cmd.op = "zrange"  -> zrangeRevWithScores(store, 0, 9)
      [] cmd.op = "zincrby" -> zincrbyReply(store, 1, cmd.member)
      [] cmd.op = "hget"    -> hget(store, cmd.member)
      [] cmd.op = "hincrby" -> hincrbyReply(store, cmd.member, 1)
      [] OTHER -> NullReply

\* a whole handler run with nothing interleaved: response and store after
Handle(v, method, uid, store) ==
    LET cmd == Command(v, method, uid)
    IN  [resp |-> Response(v, method, uid, RedisReply(store, cmd)),
         store |-> RedisStore(store, cmd)]

\* the score a store holds for a user, 0 when it holds none
ScoreIn(store, u) == IF u \in DOMAIN store THEN store[u] ELSE 0

Users == {u \in ApiUserIds : Truthy(u)}

\* the drivers of the route handlers alone mount no view
NoView ==
    /\ userId = <<>>
    /\ score = NullReply
    /\ leaderboard = <<>>
    /\ isLoading = FALSE
    /\ tasks = EmptyBag
    /\ rejected = FALSE

-----------------------------------------------------------------------------
(* Sequential driver: calls are issued one after another, each to both     *)
(* variants side by side, each variant on its own store.                   *)

NoCall == [method |-> "none", userId |-> NULL,
           zcmd |-> NoCommand, hcmd |-> NoCommand,
           zset |-> JsonError("", 0), hash |-> JsonError("", 0)]

SeqInit ==
    /\ zset = EmptyStore
    /\ hash = EmptyStore
    /\ last = NoCall
    /\ posted = [u \in Users |-> 0]
    /\ variant = "both"
    /\ reqs = EmptyBag
    /\ peak = 0
    /\ nposts = 0
    /\ NoView

Call(method, uid) ==
    LET z == Handle("zset", method, uid, zset)
        h == Handle("hash", method, uid, hash)
    IN  /\ zset' = z.store
        /\ hash' = h.store
        /\ last' = [method |-> method, userId |-> uid,
                    zcmd |-> Command("zset", method, uid),
                    hcmd |-> Command("hash", method, uid),
                    zset |-> z.resp, hash |-> h.resp]
        /\ posted' = IF method = "POST" /\ z.resp.status = 200
                     THEN [posted EXCEPT ![uid] = @ + 1]
                     ELSE posted
        /\ UNCHANGED <<variant, reqs, peak, viewVars>>

CallGET == \E uid \in ApiUserIds : Call("GET", uid) /\ UNCHANGED nposts

CallPOST ==
    \E uid \in ApiUserIds :
        /\ ScoreIn(zset, uid) < MaxScore
        /\ Call("POST", uid)
        /\ UNCHANGED nposts

SeqNext == CallGET \/ CallPOST

Spec == SeqInit /\ [][SeqNext]_vars

-----------------------------------------------------------------------------
(* Properties of the sequential driver (Spec).                             *)

ValidationError == JsonError("User ID is required", 400)

\* C1: with calls issued one after another, GET with userId = u returns
\* exactly the number of successful POSTs of u completed so far (0 before
\* any), whatever other users did in between.
C1_GetScoreCountsIncrements ==
    /\ \A u \in Users :
            Handle("zset", "GET", u, zset).resp = JsonScore(posted[u])
    /\ last.method = "GET" /\ Truthy(last.userId)
            => last.zset = JsonScore(posted[last.userId])

C1_Witness ==
    /\ last.method = "GET"
    /\ last.userId = <<"a">>
    /\ last.zset = JsonScore(2)
    /\ posted[<<"b">>] = 3

\* C6: a POST whose userId is missing or empty is answered 400 "User ID is
\* required" by both variants, issues no store command and leaves every
\* score and the leaderboard as they were.
C6_PostWithoutUserRejected ==
    [][(last'.method = "POST" /\ ~Truthy(last'.userId)) =>
            /\ last'.zset = ValidationError
            /\ last'.hash = ValidationError
            /\ last'.zcmd = NoCommand
            /\ last'.hcmd = NoCommand
            /\ zset' = zset
            /\ hash' = hash
            /\ Handle("zset", "GET", NULL, zset').resp
                    = Handle("zset", "GET", NULL, zset).resp]_vars

C6_Witness ==
    /\ last.method = "POST"
    /\ last.userId = <<>>
    /\ last.zset.status = 400
    /\ ScoreIn(zset, <<"a">>) = 2
    /\ ScoreIn(hash, <<"b">>) = 1

\* C7 as claimed: a GET whose userId is missing or empty fails with 400
\* "User ID is required" in every variant of the handler.
C7_Original ==
    (last.method = "GET" /\ ~Truthy(last.userId)) =>
        /\ last.zset = ValidationError
        /\ last.hash = ValidationError

\* C7 amended: a GET whose userId is missing or empty mutates no store in
\* either variant; the hash variant answers 400 "User ID is required", the
\* sorted-set variant answers 200 with the leaderboard.
C7_GetWithoutUser ==
    [][(last'.method = "GET" /\ ~Truthy(last'.userId)) =>
            /\ last'.hash = ValidationError
            /\ last'.hcmd = NoCommand
            /\ last'.zset.status = 200
            /\ last'.zset.body = "leaderboard"
            /\ last'.zcmd.op = "zrange"
            /\ zset' = zset
            /\ hash' = hash]_vars

C7_Witness ==
    /\ last.method = "GET"
    /\ last.userId = NULL
    /\ last.hash.status = 400
    /\ Len(last.zset.leaderboard) = 2

\* the users a leaderboard response lists
BoardUsersOf(resp) ==
    {resp.leaderboard[i].user : i \in 1..Len(resp.leaderboard)}

\* C8: a GET (score or leaderboard) leaves both stores as they were; GET for
\* a user never incremented returns 0 and creates no entry, and the
\* leaderboard lists exactly the users incremented at least once.
C8_ReadsHaveNoSideEffects ==
    [][/\ last'.method = "GET" =>
            /\ zset' = zset
            /\ hash' = hash
            /\ \A u \in Users : ScoreIn(zset', u) = ScoreIn(zset, u)
            /\ (Truthy(last'.userId) /\ posted[last'.userId] = 0) =>
                    /\ last'.zset = JsonScore(0)
                    /\ last'.hash = JsonScore(0)
                    /\ last'.userId \notin DOMAIN zset'
                    /\ last'.userId \notin DOMAIN hash'
       /\ BoardUsersOf(Handle("zset", "GET", NULL, zset').resp)
            = {u \in Users : posted'[u] > 0}]_vars

C8_Witness ==
    /\ last.method = "GET"
    /\ last.userId = <<"b">>
    /\ last.zset = JsonScore(0)
    /\ posted[<<"a">>] = 2
    /\ BoardUsersOf(Handle("zset", "GET", NULL, zset).resp) = {<<"a">>}

\* C9: on the same sequence of calls with a non-empty userId the sorted-set
\* variant and the hash variant give the same response to every call and
\* hold the same score for every user after every call.
C9_VariantsEquivalent ==
    /\ Truthy(last.userId) => last.zset = last.hash
    /\ \A u \in Users : ScoreIn(zset, u) = ScoreIn(hash, u)
    /\ \A u \in Users :
            Handle("zset", "GET", u, zset).resp
                = Handle("hash", "GET", u, hash).resp

C9_Witness ==
    /\ last.method = "POST"
    /\ last.userId = <<"b">>
    /\ last.zset = JsonScore(2)
    /\ last.hash = JsonScore(2)
    /\ posted[<<"a">>] = 1

-----------------------------------------------------------------------------
(* Leaderboard driver: the sorted-set route over a store that already      *)
(* holds up to twelve users, so that the top-ten cut is exercised.  Every  *)
(* initial store is built by ZINCRBYs from the empty store.                *)

BoardUserSeq ==
    << <<"a">>, <<"b">>, <<"c">>,
       <<"a", "a">>, <<"a", "b">>, <<"a", "c">>,
       <<"b", "a">>, <<"b", "b">>, <<"b", "c">>,
       <<"c", "a">>, <<"c", "b">>, <<"c", "c">> >>

BoardUserIds == {BoardUserSeq[i] : i \in 1..Len(BoardUserSeq)}

\* the number of increments the i-th user has had in the initial store
SeedScore(i, k) == 1 + (i % k)

\* store after `times` ZINCRBYs of member
RECURSIVE Incremented(_, _, _)
Incremented(store, member, times) ==
    IF times = 0 THEN store
    ELSE Incremented(zincrbyStore(store, 1, member), member, times - 1)

\* the store after the first n users have had their SeedScore increments
RECURSIVE SeedStore(_, _)
SeedStore(n, k) ==
    IF n = 0 THEN EmptyStore
    ELSE Incremented(SeedStore(n - 1, k), BoardUserSeq[n], SeedScore(n, k))

BoardInit ==
    /\ \E n \in 0..Len(BoardUserSeq), k \in 1..MaxSeedSpread :
            /\ zset = SeedStore(n, k)
            /\ hash = zset
            /\ posted = [u \in BoardUserIds |-> ScoreIn(zset, u)]
    /\ last = NoCall
    /\ variant = "both"
    /\ reqs = EmptyBag
    /\ peak = 0
    /\ nposts = 0
    /\ NoView

BoardPOST ==
    \E uid \in BoardUserIds :
        /\ nposts < MaxBoardPosts
        /\ Call("POST", uid)
        /\ nposts' = nposts + 1

BoardGET == Call("GET", NULL) /\ UNCHANGED nposts

BoardNext == BoardPOST \/ BoardGET

SpecBoard == BoardInit /\ [][BoardNext]_vars

\* the leaderboard a GET without userId returns from the current store
Board == Handle("zset", "GET", NULL, zset).resp.leaderboard

\* C4: the leaderboard read returns scores in non-increasing order and
\* exactly min(10, number of users incremented at least once) entries; on a
\* store without increments it returns the empty sequence.
C4_LeaderboardSortedAndSized ==
    LET lb == Board
    IN  /\ \A i \in 1..(Len(lb) - 1) : lb[i].score >= lb[i + 1].score
        /\ Len(lb) = Min(10, Cardinality({u \in BoardUserIds : posted[u] > 0}))
        /\ (\A u \in BoardUserIds : posted[u] = 0) => lb = <<>>
        /\ (last.method = "GET" /\ last.userId = NULL)
                => /\ last.zset.status = 200
                   /\ last.zset.leaderboard = lb

C4_Witness ==
    /\ last.method = "GET"
    /\ Len(last.zset.leaderboard) = 10
    /\ Cardinality({u \in BoardUserIds : posted[u] > 0}) = 12
    /\ last.zset.leaderboard[1].score = 4
    /\ last.zset.leaderboard[10].score = 1
    /\ nposts = 2

\* C5: the leaderboard read returns the true top entries: every entry
\* carries its user's current score, no user is listed twice, and no user
\* left out has a score greater than that of a listed user.
C5_LeaderboardIsTop ==
    LET lb == Board
        listed == {lb[i].user : i \in 1..Len(lb)}
    IN  /\ \A i \in 1..Len(lb) :
                /\ lb[i].user \in DOMAIN zset
                /\ lb[i].score = zset[lb[i].user]
                /\ lb[i].score = posted[lb[i].user]
        /\ \A i, j \in 1..Len(lb) : i # j => lb[i].user # lb[j].user
        /\ \A u \in DOMAIN zset \ listed :
                \A i \in 1..Len(lb) : zset[u] <= lb[i].score

C5_Witness ==
    /\ last.method = "GET"
    /\ Len(last.zset.leaderboard) = 10
    /\ nposts = 1
    /\ \E u \in DOMAIN zset :
            /\ u \notin BoardUsersOf(last.zset)
            /\ zset[u] = last.zset.leaderboard[10].score
    /\ \E u \in DOMAIN zset :
            /\ u \notin BoardUsersOf(last.zset)
            /\ zset[u] < last.zset.leaderboard[1].score

-----------------------------------------------------------------------------
(* Concurrent driver: one route file is deployed (variant) and up to       *)
(* MaxReqs handler invocations run at once.  An invocation starts and runs *)
(* to its await (Start), Redis executes its command atomically (Exec), and *)
(* the invocation resumes with the reply and responds (Finish).            *)

NoReply == [num |-> NullReply, arr |-> <<>>]

\* a reply as the invocation holds it: a number or an array
Wrap(cmd, reply) ==
    IF cmd.op = "zrange" THEN [num |-> NullReply, arr |-> reply]
                         ELSE [num |-> reply, arr |-> <<>>]

Unwrap(cmd, reply) == IF cmd.op = "zrange" THEN reply.arr ELSE reply.num

Max(a, b) == IF a > b THEN a ELSE b

InFlight(bag) == {r \in BagToSet(bag) : r.pc # "done"}

\* the number of elements of the bag that are in T, each with its copies
RECURSIVE Copies(_, _)
Copies(bag, T) ==
    IF T = {} THEN 0
    ELSE LET t == CHOOSE x \in T : TRUE
         IN  CopiesIn(t, bag) + Copies(bag, T \ {t})

NumInFlight(bag) == Copies(bag, InFlight(bag))

ConcInit ==
    /\ variant \in {"zset", "hash"}
    /\ zset = EmptyStore
    /\ hash = EmptyStore
    /\ last = NoCall
    /\ posted = [u \in Users |-> 0]
    /\ reqs = EmptyBag
    /\ peak = 0
    /\ nposts = 0
    /\ NoView

\* the store the deployed variant works on
Store == IF variant = "zset" THEN zset ELSE hash

Start(method, uid) ==
    LET cmd == Command(variant, method, uid)
        r == IF cmd.op = "none"
             THEN [method |-> method, userId |-> uid, pc |-> "done",
                   reply |-> NoReply,
                   resp |-> Response(variant, method, uid, NullReply)]
             ELSE [method |-> method, userId |-> uid, pc |-> "await",
                   reply |-> NoReply, resp |-> JsonError("", 0)]
    IN  /\ BagCardinality(reqs) < MaxReqs
        /\ reqs' = reqs (+) SetToBag({r})
        /\ peak' = Max(peak, NumInFlight(reqs'))
        /\ UNCHANGED <<zset, hash, last, posted, variant, nposts, viewVars>>

StartGET == \E uid \in ApiUserIds : Start("GET", uid)

StartPOST == \E uid \in ApiUserIds : Start("POST", uid)

Exec ==
    \E r \in BagToSet(reqs) :
        /\ r.pc = "await"
        /\ LET cmd == Command(variant, r.method, r.userId)
               done == [r EXCEPT !.pc = "replied",
                                 !.reply = Wrap(cmd, RedisReply(Store, cmd))]
           IN  /\ reqs' = (reqs (-) SetToBag({r})) (+) SetToBag({done})
               /\ IF variant = "zset"
                  THEN zset' = RedisStore(zset, cmd) /\ hash' = hash
                  ELSE hash' = RedisStore(hash, cmd) /\ zset' = zset
        /\ UNCHANGED <<last, posted, variant, peak, nposts, viewVars>>

Finish ==
    \E r \in BagToSet(reqs) :
        /\ r.pc = "replied"
        /\ LET cmd == Command(variant, r.method, r.userId)
               resp == Response(variant, r.method, r.userId,
                                Unwrap(cmd, r.reply))
               done == [r EXCEPT !.pc = "done", !.resp = resp]
           IN  /\ reqs' = (reqs (-) SetToBag({r})) (+) SetToBag({done})
               /\ posted' = IF r.method = "POST" /\ resp.status = 200
                            THEN [posted EXCEPT ![r.userId] = @ + 1]
                            ELSE posted
        /\ UNCHANGED <<zset, hash, last, variant, peak, nposts, viewVars>>

ConcNext == StartGET \/ StartPOST \/ Exec \/ Finish

SpecConc == ConcInit /\ [][ConcNext]_vars

-----------------------------------------------------------------------------
(* Properties of the concurrent driver (SpecConc).                         *)

PostsOf(u) == {r \in BagToSet(reqs) : r.method = "POST" /\ r.userId = u}

\* C2: no increment is lost.  Each POST issues one atomic increment command;
\* the score of u is the number of POSTs of u Redis has executed, and once
\* none of N concurrent POSTs of u is still waiting the score is exactly N.
C2_NoLostIncrement ==
    \A u \in Users :
        LET started == Copies(reqs, PostsOf(u))
            executed == Copies(reqs, {r \in PostsOf(u) : r.pc # "await"})
        IN  /\ Command(variant, "POST", u).op \in {"zincrby", "hincrby"}
            /\ ScoreIn(Store, u) = executed
            /\ (\A r \in PostsOf(u) : r.pc # "await")
                    => ScoreIn(Store, u) = started

C2_Witness ==
    /\ peak = 3
    /\ \A r \in BagToSet(reqs) :
            r.method = "POST" /\ r.userId = <<"a">> /\ r.pc = "done"
    /\ ScoreIn(Store, <<"a">>) = 3

\* C3: every POST of u returns the score right after its own increment: the
\* values Redis replied to the POSTs of u executed so far are pairwise
\* distinct and are exactly 1..(number executed), each response carries its
\* own reply, and N finished POSTs of a fresh user returned exactly 1..N.
C3_IncrementReturnsNewScore ==
    \A u \in Users :
        LET ex == {r \in PostsOf(u) : r.pc # "await"}
            fin == {r \in PostsOf(u) : r.pc = "done"}
            executed == Copies(reqs, ex)
            finished == Copies(reqs, fin)
        IN  /\ {r.reply.num : r \in ex} = 1..executed
            /\ \A r \in fin : r.resp = JsonScore(r.reply.num)
            /\ fin = PostsOf(u) => {r.resp.score : r \in fin} = 1..finished

C3_Witness ==
    /\ peak = 3
    /\ variant = "zset"
    /\ {r.resp.score : r \in {q \in PostsOf(<<"b">>) : q.pc = "done"}} = {1, 2, 3}

-----------------------------------------------------------------------------
(* The client view, src/app/page.tsx: HomePage over the sorted-set route.  *)
(* Each async call of the view (the mount's fetchLeaderboard, an effect's  *)
(* fetchUserScore, a click's handleIncrement) is a task that holds the     *)
(* userId it closed over and the await it is suspended at.  A request is   *)
(* handled by the route as a whole (ServerHandle) some time after it was   *)
(* sent, and the task resumes some time after that, or its await rejects.  *)

\* the texts an input event can leave in the input box
RawInputs ==
    { <<>>, <<"a">>, <<"b">>, <<"A">>, <<" ", "a">>, <<"b", " ">>, <<" ">> }

\* String.prototype.toLowerCase
ToLowerCase(str) ==
    [i \in 1..Len(str) |->
        CASE str[i] = "A" -> "a"
          [] str[i] = "B" -> "b"
          [] OTHER -> str[i]]

\* String.prototype.trim
Trim(str) ==
    LET solid == {i \in 1..Len(str) : str[i] # " "}
    IN  IF solid = {} THEN <<>>
        ELSE SubSeq(str, CHOOSE i \in solid : \A j \in solid : i <= j,
                         CHOOSE i \in solid : \A j \in solid : i >= j)

\* searchParams.get("userId") of the URL `/api/banana?userId=${userId}`:
\* fetch parses the URL, which drops the spaces at its end; the value ends
\* at the first "&" or "#", and "+" decodes to a space
QueryUserId(str) ==
    LET solid == {i \in 1..Len(str) : str[i] # " "}
        len == IF solid = {} THEN 0
               ELSE CHOOSE i \in solid : \A j \in solid : i >= j
        stops == {i \in 1..len : str[i] \in {"&", "#"}}
        end == IF stops = {} THEN len
               ELSE (CHOOSE i \in stops : \A j \in stops : i <= j) - 1
    IN  [i \in 1..end |-> IF str[i] = "+" THEN " " ELSE str[i]]

NoResponse == JsonError("", 0)

\* an async call of the view: the userId it closed over, the await it is
\* suspended at, the response it has been sent, and (history) the displayed
\* score before and after its own setScore, once it has called it
Task(kind, uid, pc) ==
    [kind |-> kind, userId |-> uid, pc |-> pc, resp |-> NoResponse,
     wrote |-> <<>>]

Increments(bag) == {t \in BagToSet(bag) : t.kind = "handleIncrement"}

\* the state after the mount: both effects have run
ViewInit ==
    /\ zset = EmptyStore
    /\ hash = EmptyStore
    /\ last = NoCall
    /\ posted = [u \in Users |-> 0]
    /\ variant = "zset"
    /\ reqs = EmptyBag
    /\ peak = 0
    /\ nposts = 0
    /\ userId = <<>>
    /\ score = NullReply
    /\ leaderboard = <<>>
    /\ isLoading = FALSE
    /\ tasks = SetToBag({Task("fetchLeaderboard", <<>>, "sent")})
    /\ rejected = FALSE

\* an effect without the early return for the empty identifier
OnChangeFetchesAlways ==
    \E raw \in RawInputs :
        LET new == Trim(ToLowerCase(raw))
        IN  /\ new # userId
            /\ userId' = new
            /\ BagCardinality(tasks) < MaxTasks
            /\ tasks' = tasks (+) SetToBag({Task("fetchUserScore", new, "sent")})
            /\ rejected' = FALSE
            /\ UNCHANGED <<score, leaderboard, isLoading, routeVars>>

\* the input's onChange followed by the effect on [userId]
OnChange ==
    \E raw \in RawInputs :
        LET new == Trim(ToLowerCase(raw))
        IN  /\ new # userId
            /\ userId' = new
            /\ IF ~Truthy(new)
               THEN /\ score' = NullReply
                    /\ tasks' = tasks
               ELSE /\ BagCardinality(tasks) < MaxTasks
                    /\ score' = score
                    /\ tasks' = tasks (+) SetToBag({Task("fetchUserScore", new, "sent")})
            /\ rejected' = FALSE
            /\ UNCHANGED <<leaderboard, isLoading, routeVars>>

\* a click on the button: handleIncrement up to its first await
HandleIncrement ==
    IF ~Truthy(userId) \/ isLoading
    THEN UNCHANGED vars
    ELSE /\ BagCardinality(tasks) < MaxTasks
         /\ ScoreIn(zset, userId) < MaxViewScore
         /\ isLoading' = TRUE
         /\ tasks' = tasks (+) SetToBag({Task("handleIncrement", userId, "post_sent")})
         /\ rejected' = FALSE
         /\ UNCHANGED <<userId, score, leaderboard, routeVars>>

\* the request a suspended task has sent
RequestOf(t) ==
    CASE t.pc = "post_sent"  -> [method |-> "POST", userId |-> t.userId]
      [] t.pc = "board_sent" -> [method |-> "GET", userId |-> NULL]
      [] t.kind = "fetchLeaderboard" -> [method |-> "GET", userId |-> NULL]
      [] t.kind = "fetchUserScore" ->
            [method |-> "GET", userId |-> QueryUserId(t.userId)]

AnsweredPc(pc) ==
    CASE pc = "sent"       -> "answered"
      [] pc = "post_sent"  -> "post_answered"
      [] pc = "board_sent" -> "board_answered"

\* the route handles the request of the call t and responds
Serve(t) ==
    /\ t.pc \in {"sent", "post_sent", "board_sent"}
    /\ rejected' = FALSE
    /\ UNCHANGED <<hash, last, variant, reqs, peak, nposts,
                   userId, score, leaderboard, isLoading>>
    /\ LET rq == RequestOf(t)
           h == Handle("zset", rq.method, rq.userId, zset)
           t2 == [t EXCEPT !.pc = AnsweredPc(t.pc), !.resp = h.resp]
       IN  /\ zset' = h.store
           /\ posted' = IF rq.method = "POST" /\ h.resp.status = 200
                        THEN [posted EXCEPT ![rq.userId] = @ + 1]
                        ELSE posted
           /\ tasks' = (tasks (-) SetToBag({t})) (+) SetToBag({t2})

\* the route handles a request of the view and responds
ServerHandle == \E t \in BagToSet(tasks) : Serve(t)

\* fetchLeaderboard (called by the mount effect) resumes: lines 37-38
ResumeFetchLeaderboard ==
    \E t \in BagToSet(tasks) :
        /\ t.kind = "fetchLeaderboard"
        /\ t.pc = "answered"
        /\ leaderboard' = t.resp.leaderboard
        /\ tasks' = tasks (-) SetToBag({t})
        /\ rejected' = FALSE
        /\ UNCHANGED <<userId, score, isLoading, routeVars>>

ResumeFetchUserScoreClearsLoading ==
    \E t \in BagToSet(tasks) :
        /\ t.kind = "fetchUserScore"
        /\ t.pc = "answered"
        /\ score' = t.resp.score
        /\ isLoading' = FALSE
        /\ tasks' = tasks (-) SetToBag({t})
        /\ rejected' = FALSE
        /\ UNCHANGED <<userId, leaderboard, routeVars>>

\* fetchUserScore resumes: lines 60-61
ResumeFetchUserScore ==
    \E t \in BagToSet(tasks) :
        /\ t.kind = "fetchUserScore"
        /\ t.pc = "answered"
        /\ score' = t.resp.score
        /\ tasks' = tasks (-) SetToBag({t})
        /\ rejected' = FALSE
        /\ UNCHANGED <<userId, leaderboard, isLoading, routeVars>>

\* a handleIncrement that would call fetchLeaderboard() without awaiting it:
\* its finally runs as soon as the score is set
ResumeIncrementPostedUnawaited ==
    \E t \in BagToSet(tasks) :
        /\ t.kind = "handleIncrement"
        /\ t.pc = "post_answered"
        /\ score' = t.resp.score
        /\ isLoading' = FALSE
        /\ tasks' = (tasks (-) SetToBag({t}))
                        (+) SetToBag({[t EXCEPT !.pc = "board_sent",
                                                !.resp = NoResponse,
                                                !.wrote = <<score, t.resp.score>>]})
        /\ rejected' = FALSE
        /\ UNCHANGED <<userId, leaderboard, routeVars>>

\* handleIncrement resumes after the POST: lines 108-110, up to the await
\* inside fetchLeaderboard
ResumeIncrementPosted ==
    \E t \in BagToSet(tasks) :
        /\ t.kind = "handleIncrement"
        /\ t.pc = "post_answered"
        /\ score' = t.resp.score
        /\ tasks' = (tasks (-) SetToBag({t}))
                        (+) SetToBag({[t EXCEPT !.pc = "board_sent",
                                                !.resp = NoResponse,
                                                !.wrote = <<score, t.resp.score>>]})
        /\ rejected' = FALSE
        /\ UNCHANGED <<userId, leaderboard, isLoading, routeVars>>

\* handleIncrement resumes after fetchLeaderboard: lines 37-38, 113-115
ResumeIncrementRefreshed ==
    \E t \in BagToSet(tasks) :
        /\ t.kind = "handleIncrement"
        /\ t.pc = "board_answered"
        /\ leaderboard' = t.resp.leaderboard
        /\ isLoading' = FALSE
        /\ tasks' = tasks (-) SetToBag({t})
        /\ rejected' = FALSE
        /\ UNCHANGED <<userId, score, routeVars>>

\* a handleIncrement without its finally: a rejection leaves isLoading set
RejectKeepsLoading ==
    \E t \in BagToSet(tasks) :
        /\ tasks' = tasks (-) SetToBag({t})
        /\ rejected' = TRUE
        /\ UNCHANGED <<userId, score, leaderboard, isLoading, routeVars>>

\* a catch that would reset the displayed score instead of only logging
RejectResetsScore ==
    \E t \in BagToSet(tasks) :
        /\ tasks' = tasks (-) SetToBag({t})
        /\ isLoading' = IF t.kind = "handleIncrement" THEN FALSE ELSE isLoading
        /\ score' = NullReply
        /\ rejected' = TRUE
        /\ UNCHANGED <<userId, leaderboard, routeVars>>

\* an await of a task rejects (fetch fails or the body does not parse):
\* the catch logs, and handleIncrement's finally clears isLoading
Reject ==
    \E t \in BagToSet(tasks) :
        /\ tasks' = tasks (-) SetToBag({t})
        /\ isLoading' = IF t.kind = "handleIncrement" THEN FALSE ELSE isLoading
        /\ rejected' = TRUE
        /\ UNCHANGED <<userId, score, leaderboard, routeVars>>

ViewNext ==
    \/ OnChange
    \/ HandleIncrement
    \/ ServerHandle
    \/ ResumeFetchLeaderboard
    \/ ResumeFetchUserScore
    \/ ResumeIncrementPosted
    \/ ResumeIncrementRefreshed
    \/ Reject

SpecView == ViewInit /\ [][ViewNext]_vars

-----------------------------------------------------------------------------
(* Properties of the client view (SpecView).                               *)

\* the handleIncrement calls whose POST has not been answered to them yet
PostsOutstanding(bag) ==
    {t \in Increments(bag) : t.pc \in {"post_sent", "post_answered"}}

\* C10: in HomePage of page.tsx a click starts no increment while the
\* identifier is empty or isLoading is set; so at most one handleIncrement
\* call (and at most one POST) of the view is outstanding at any moment,
\* isLoading is set while it is, and no POST carries an empty userId.
C10_IncrementGuarded ==
    [][/\ (~Truthy(userId) \/ isLoading) =>
            /\ Copies(tasks', Increments(tasks')) <= Copies(tasks, Increments(tasks))
            /\ Copies(tasks', PostsOutstanding(tasks'))
                    <= Copies(tasks, PostsOutstanding(tasks))
       /\ Copies(tasks', Increments(tasks')) <= 1
       /\ Increments(tasks') # {} => isLoading'
       /\ \A t \in Increments(tasks') :
            /\ Truthy(t.userId)
            /\ t.pc = "post_sent" => Truthy(RequestOf(t).userId)]_vars

C10_Witness ==
    /\ isLoading
    /\ userId = <<"b">>
    /\ \E t \in BagToSet(tasks) :
            t.kind = "handleIncrement" /\ t.pc = "post_sent" /\ t.userId = <<"a">>
    /\ \E t \in BagToSet(tasks) :
            t.kind = "fetchUserScore" /\ t.pc = "answered" /\ t.userId = <<"b">>

\* the call whose await the step rejects: the one task the step removes
Rejects(t) == rejected' /\ tasks' = tasks (-) SetToBag({t})

\* the call has changed the displayed score by its own setScore
ChangedScore(t) == t.wrote # <<>> /\ t.wrote[1] # t.wrote[2]

\* C11 as stated: when a request of the view fails, the displayed state is
\* as it was before the action that issued it: the failed action has updated
\* neither the displayed score nor the leaderboard, so never one without the
\* other.
C11_Original ==
    [][\A t \in BagToSet(tasks) : Rejects(t) => ~ChangedScore(t)]_vars

\* C11: the step in which an await of the view rejects changes neither the
\* displayed score nor the leaderboard nor the identifier; it clears
\* isLoading when the call is handleIncrement and leaves it alone otherwise;
\* and the only call that can fail after having set displayed state is a
\* handleIncrement whose POST was answered and whose leaderboard refresh
\* rejects: it has set the score and not the leaderboard.
C11_RejectionKeepsDisplayedState ==
    [][\A t \in BagToSet(tasks) :
          Rejects(t) =>
            /\ score' = score
            /\ leaderboard' = leaderboard
            /\ userId' = userId
            /\ isLoading' = IF t.kind = "handleIncrement" THEN FALSE
                                                           ELSE isLoading
            /\ t.wrote # <<>> =>
                  /\ t.kind = "handleIncrement"
                  /\ t.pc \in {"board_sent", "board_answered"}]_vars

\* the refresh of an increment has just rejected: the score the POST
\* returned is displayed next to the leaderboard from before the increment
C11_Witness ==
    /\ rejected
    /\ tasks = EmptyBag
    /\ ~isLoading
    /\ score = 1
    /\ ScoreIn(zset, userId) = 1
    /\ leaderboard = <<>>

-----------------------------------------------------------------------------
(* The earlier client view, part_000: HomePage over the hash route.  It    *)
(* has no leaderboard; its onChange lowercases and does not trim; and its  *)
(* fetchUserScore sets isLoading before its fetch and clears it in its     *)
(* finally, as handleIncrement does.                                       *)

\* the state after the mount: the effect on [userId] has run with ""
View0Init ==
    /\ zset = EmptyStore
    /\ hash = EmptyStore
    /\ last = NoCall
    /\ posted = [u \in Users |-> 0]
    /\ variant = "hash"
    /\ reqs = EmptyBag
    /\ peak = 0
    /\ nposts = 0
    /\ userId = <<>>
    /\ score = NullReply
    /\ leaderboard = <<>>
    /\ isLoading = FALSE
    /\ tasks = EmptyBag
    /\ rejected = FALSE

\* the input's onChange (line 75) followed by the effect on [userId]:
\* fetchUserScore runs to its await within the effect
OnChange0 ==
    \E raw \in RawInputs :
        LET new == ToLowerCase(raw)
        IN  /\ new # userId
            /\ userId' = new
            /\ IF ~Truthy(new)
               THEN /\ score' = NullReply
                    /\ tasks' = tasks
                    /\ isLoading' = isLoading
               ELSE /\ BagCardinality(tasks) < MaxTasks
                    /\ score' = score
                    /\ isLoading' = TRUE
                    /\ tasks' = tasks (+) SetToBag({Task("fetchUserScore", new, "sent")})
            /\ rejected' = FALSE
            /\ UNCHANGED <<leaderboard, routeVars>>

\* a click on the button: handleIncrement up to its await
HandleIncrement0 ==
    IF ~Truthy(userId) \/ isLoading
    THEN UNCHANGED vars
    ELSE /\ BagCardinality(tasks) < MaxTasks
         /\ nposts < MaxViewScore
         /\ nposts' = nposts + 1
         /\ isLoading' = TRUE
         /\ tasks' = tasks (+) SetToBag({Task("handleIncrement", userId, "post_sent")})
         /\ rejected' = FALSE
         /\ UNCHANGED <<userId, score, leaderboard,
                        zset, hash, last, posted, variant, reqs, peak>>

\* the hash route handles the request of the call t and responds
Serve0(t) ==
    /\ t.pc \in {"sent", "post_sent"}
    /\ rejected' = FALSE
    /\ UNCHANGED <<zset, last, posted, variant, reqs, peak, nposts,
                   userId, score, leaderboard, isLoading>>
    /\ LET rq == RequestOf(t)
           h == Handle("hash", rq.method, rq.userId, hash)
           t2 == [t EXCEPT !.pc = AnsweredPc(t.pc), !.resp = h.resp]
       IN  /\ hash' = h.store
           /\ tasks' = (tasks (-) SetToBag({t})) (+) SetToBag({t2})

\* the hash route handles a request of the view and responds
ServerHandle0 == \E t \in BagToSet(tasks) : Serve0(t)

\* fetchUserScore resumes: lines 24-26, then its finally
ResumeFetchUserScore0 ==
    \E t \in BagToSet(tasks) :
        /\ t.kind = "fetchUserScore"
        /\ t.pc = "answered"
        /\ score' = t.resp.score
        /\ isLoading' = FALSE
        /\ tasks' = tasks (-) SetToBag({t})
        /\ rejected' = FALSE
        /\ UNCHANGED <<userId, leaderboard, routeVars>>

\* handleIncrement resumes: lines 52-53, then its finally
ResumeIncrement0 ==
    \E t \in BagToSet(tasks) :
        /\ t.kind = "handleIncrement"
        /\ t.pc = "post_answered"
        /\ score' = t.resp.score
        /\ isLoading' = FALSE
        /\ tasks' = tasks (-) SetToBag({t})
        /\ rejected' = FALSE
        /\ UNCHANGED <<userId, leaderboard, routeVars>>

\* an await of a task rejects: the catch logs, the finally clears isLoading
Reject0 ==
    \E t \in BagToSet(tasks) :
        /\ tasks' = tasks (-) SetToBag({t})
        /\ isLoading' = FALSE
        /\ rejected' = TRUE
        /\ UNCHANGED <<userId, score, leaderboard, routeVars>>

View0Next ==
    \/ OnChange0
    \/ HandleIncrement0
    \/ ServerHandle0
    \/ ResumeFetchUserScore0
    \/ ResumeIncrement0
    \/ Reject0

SpecView0 == View0Init /\ [][View0Next]_vars

\* the text is what lowercasing and trimming make of it
Normalized(str) == ToLowerCase(str) = str /\ Trim(str) = str

\* the calls of the view whose request carries a user identifier
CarryingUserId(bag) ==
    {t \in BagToSet(bag) : t.kind \in {"fetchUserScore", "handleIncrement"}}

\* C12 as stated: every identifier a getScore or incrementScore request of
\* the view carries is lowercased and trimmed: it has no uppercase letter
\* and no leading or trailing whitespace.
C12_Original == \A t \in CarryingUserId(tasks) : Normalized(t.userId)

-----------------------------------------------------------------------------
(* Both versions of the view: the deployment is one of the two, page.tsx   *)
(* with the sorted-set route or part_000 with the hash route.              *)

ViewsInit == ViewInit \/ View0Init

ViewsNext ==
    \/ variant = "zset" /\ OnChange
    \/ variant = "zset" /\ HandleIncrement
    \/ variant = "zset" /\ ServerHandle
    \/ variant = "zset" /\ ResumeFetchLeaderboard
    \/ variant = "zset" /\ ResumeFetchUserScore
    \/ variant = "zset" /\ ResumeIncrementPosted
    \/ variant = "zset" /\ ResumeIncrementRefreshed
    \/ variant = "zset" /\ Reject
    \/ variant = "hash" /\ OnChange0
    \/ variant = "hash" /\ HandleIncrement0
    \/ variant = "hash" /\ ServerHandle0
    \/ variant = "hash" /\ ResumeFetchUserScore0
    \/ variant = "hash" /\ ResumeIncrement0
    \/ variant = "hash" /\ Reject0

SpecViews == ViewsInit /\ [][ViewsNext]_vars

\* the effect's call of fetchUserScore for the identifier, up to its await
FetchFor(uid) == Task("fetchUserScore", uid, "sent")

\* C13: on every change of the identifier, in both versions of the view:
\* when the new identifier is empty the displayed score becomes none and no
\* request is issued; when it is not empty exactly one request is issued,
\* the getScore GET whose URL holds the new identifier, and the displayed
\* score is left for its response to set.
C13_ChangeFetchesOnce ==
    [][userId' # userId =>
         IF userId' = <<>>
         THEN score' = NullReply /\ tasks' = tasks
         ELSE /\ tasks' = tasks (+) SetToBag({FetchFor(userId')})
              /\ RequestOf(FetchFor(userId')).method = "GET"
              /\ RequestOf(FetchFor(userId')).userId = QueryUserId(userId')
              /\ score' = score]_vars

\* two changes of the identifier overlap in the earlier view: each has
\* issued its one request
C13_Witness ==
    /\ variant = "hash"
    /\ userId = <<"b">>
    /\ tasks = SetToBag({FetchFor(<<"a">>), FetchFor(<<"b">>)})

\* the step resumes the call t after an answered request
Resumes(t) ==
    /\ t.pc \in {"answered", "post_answered", "board_answered"}
    /\ ~rejected'
    /\ tasks' # tasks
    /\ ~BagIn(t, tasks')

\* C14: an increment action of page.tsx proceeds in a fixed order.  Its POST
\* is outstanding before it has set the score; the step that resumes it
\* after the POST sets the displayed score to the POST's response and only
\* then has the leaderboard request outstanding, with isLoading still set;
\* isLoading is cleared by the step that resumes it after the leaderboard
\* response and by no earlier step of a successful action; and the
\* leaderboard that step displays is the one that response carried, read
\* from a store that already held this increment: it lists the user with at
\* least the score the POST returned.
C14_IncrementOrdered ==
    [][\A t \in Increments(tasks) :
          /\ isLoading
          /\ t.pc \in {"post_sent", "post_answered"} <=> t.wrote = <<>>
          /\ (t.pc = "post_answered" /\ Resumes(t)) =>
                /\ score' = t.resp.score
                /\ leaderboard' = leaderboard
                /\ isLoading'
                /\ \E t2 \in Increments(tasks') :
                      /\ t2.pc = "board_sent"
                      /\ t2.wrote[2] = t.resp.score
                      /\ RequestOf(t2) = [method |-> "GET", userId |-> NULL]
          /\ (~isLoading' /\ ~rejected') =>
                /\ t.pc = "board_answered"
                /\ Resumes(t)
                /\ leaderboard' = t.resp.leaderboard
                /\ \E i \in DOMAIN leaderboard' :
                      /\ leaderboard'[i].user = t.userId
                      /\ leaderboard'[i].score >= t.wrote[2]
                /\ Increments(tasks') = {}]_vars

\* an increment action has just completed: the score the POST returned and
\* a leaderboard that holds it are displayed, and isLoading is clear
C14_Witness ==
    /\ ~isLoading
    /\ ~rejected
    /\ tasks = EmptyBag
    /\ userId = <<"a">>
    /\ score = 1
    /\ leaderboard = <<[user |-> <<"a">>, score |-> 1]>>

\* C15 as stated: in the earlier view (part_000) isLoading is set at every
\* moment at which a getScore or incrementScore request of the view is
\* outstanding.
C15_Original == CarryingUserId(tasks) # {} => isLoading

-----------------------------------------------------------------------------
(* page.tsx when every request is answered: no await rejects.              *)

ViewAnsweredNext ==
    \/ OnChange
    \/ HandleIncrement
    \/ ServerHandle
    \/ ResumeFetchLeaderboard
    \/ ResumeFetchUserScore
    \/ ResumeIncrementPosted
    \/ ResumeIncrementRefreshed

SpecViewAnswered == ViewInit /\ [][ViewAnsweredNext]_vars

\* the scores the store has held for the user: it started at 0 and grew by 1
HeldScores(u) == 0..ScoreIn(zset, u)

\* C16 as stated: whenever no request of the view is outstanding and the
\* identifier is not empty, the displayed score is a score the store held
\* for the identifier now entered, whatever the order in which the
\* responses to requests issued under earlier identifiers arrived.
C16_Original ==
    (tasks = EmptyBag /\ Truthy(userId)) => score \in HeldScores(userId)

-----------------------------------------------------------------------------
(* Both versions of the view when no request waits forever: the route      *)
(* answers every request that stays outstanding and the browser runs the   *)
(* continuation of every answered call.  A request of handleIncrement is   *)
(* not passed over for ever in favour of the score requests of later       *)
(* identifier changes.                                                     *)

\* a step of an outstanding handleIncrement call: its request is handled,
\* or its continuation runs
IncrementProgress ==
    \/ /\ variant = "zset"
       /\ \/ \E t \in Increments(tasks) : Serve(t)
          \/ ResumeIncrementPosted
          \/ ResumeIncrementRefreshed
    \/ /\ variant = "hash"
       /\ \/ \E t \in Increments(tasks) : Serve0(t)
          \/ ResumeIncrement0

\* a step of any outstanding call of the earlier view, whose fetchUserScore
\* holds isLoading as well
Progress0 ==
    /\ variant = "hash"
    /\ ServerHandle0 \/ ResumeFetchUserScore0 \/ ResumeIncrement0

ViewsFairness == WF_vars(IncrementProgress) /\ WF_vars(Progress0)

SpecViewsFair == ViewsInit /\ [][ViewsNext]_vars /\ ViewsFairness

\* C17: in both versions of the view, when every request is eventually
\* answered or fails, every handleIncrement call that has set isLoading
\* eventually returns, and isLoading is false when the last one has; the
\* flag never stays set for ever.
C17_LoadingEventuallyCleared ==
    []<>(Increments(tasks) = {} /\ ~isLoading)

\* an increment of page.tsx has failed after the store applied it: the
\* displayed score is the one from before, and isLoading is clear again
C17_Witness ==
    /\ variant = "zset"
    /\ rejected
    /\ tasks = EmptyBag
    /\ ~isLoading
    /\ userId = <<"a">>
    /\ score = 0
    /\ ScoreIn(zset, userId) = 1

====
